---- MODULE Spec2Model ----
(***************************************************************************)
(* A model of the speech-to-text pipeline of speech_to_text_core.py and    *)
(* of the command line front end speech_to_text_cli.py.                    *)
(*                                                                         *)
(* Text is a sequence of tokens; a token is a string that is written as a  *)
(* unit ("filename: ", a digit, one character of a segment's text).  The   *)
(* line feed is the token NL, so that the lines of a file are computed     *)
(* from what was written and are not assumed.                              *)
(***************************************************************************)
EXTENDS Integers, Sequences, FiniteSets, TLC

\* ------------------------------------------------------------------ bounds

\* The largest number of segments of a transcription result.
MaxSegs == 2

\* The largest number of calls of transcribe_audio in a run.
MaxCalls == 3

\* The largest number of progress updates of the engine in one call.
MaxUpdates == 2

\* ------------------------------------------------------------ Python values

\* Python's None.
NoneVal == "<None>"

NL == "\n"

\* The whitespace characters of the model's alphabet (str.strip removes them).
Whitespace == {" "}

Digits == <<"0", "1", "2", "3", "4", "5", "6", "7", "8", "9">>

\* str(n) of a non-negative integer.
RECURSIVE ToStr(_)
ToStr(n) ==
    IF n < 10 THEN <<Digits[n + 1]>>
    ELSE ToStr(n \div 10) \o <<Digits[(n % 10) + 1]>>

\* format(n, "0<w>d"): zero-padded to at least w digits.
RECURSIVE Pad(_, _)
Pad(s, w) == IF Len(s) >= w THEN s ELSE Pad(<<"0">> \o s, w)

\* str.strip(): leading and trailing whitespace removed.
RECURSIVE Strip(_)
Strip(s) ==
    IF s = <<>> THEN s
    ELSE IF s[1] \in Whitespace THEN Strip(Tail(s))
    ELSE IF s[Len(s)] \in Whitespace THEN Strip(SubSeq(s, 1, Len(s) - 1))
    ELSE s

\* ------------------------------------------------------- format_timestamp

\* A number of seconds is [sec, frac]: whole seconds and a fraction in units
\* of 100 ns (TicksPerSecond of them in a second).
TicksPerSecond == 10000000
TicksPerMicro == 10
MicrosPerSecond == 1000000
SecondsPerDay == 86400

\* timedelta(seconds=x): x is rounded to the nearest microsecond (ties to
\* even) and normalised to days, seconds (0..86399) and microseconds.
Timedelta(t) ==
    LET q == t.frac \div TicksPerMicro
        r == t.frac % TicksPerMicro
        half == TicksPerMicro \div 2
        us == IF r > half \/ (r = half /\ q % 2 = 1) THEN q + 1 ELSE q
        total == t.sec + (us \div MicrosPerSecond)
    IN  [days |-> total \div SecondsPerDay,
         seconds |-> total % SecondsPerDay,
         microseconds |-> us % MicrosPerSecond]

format_timestamp(t) ==
    LET td == Timedelta(t)
        hours == td.seconds \div 3600
        minutes == (td.seconds % 3600) \div 60
        secs == td.seconds % 60
        milliseconds == td.microseconds \div 1000
    IN  Pad(ToStr(hours), 2) \o <<":">> \o Pad(ToStr(minutes), 2) \o <<":">>
        \o Pad(ToStr(secs), 2) \o <<".">> \o Pad(ToStr(milliseconds), 3)

TicksPerMilli == 10000

\* The whole seconds and the fractions (in ticks) of the arguments of
\* format_timestamp: up to and past a minute, an hour and a day; whole
\* milliseconds, and fractions finer than a millisecond and a microsecond.
WholeSeconds == {0, 1, 59, 60, 3599, 3600, 3723, 86399, 86400, 90061, 172800}
Fractions == {0, 4, 5, 6, 15, 10000, 2300000, 4560000, 9990000, 9996000,
              9999994, 9999996}
TimeInputs == [sec : WholeSeconds, frac : Fractions]

\* ------------------------------------------------------------- the inputs

\* Segment times: 0 s, 1.23 s and 3723.456 s.
T0 == [sec |-> 0, frac |-> 0]
T1 == [sec |-> 1, frac |-> 2300000]
T2 == [sec |-> 3723, frac |-> 4560000]

\* "T" stands for a character in its traditional form and "S" for the same
\* character in its simplified form; "a" is a character with one form only.
\* The segments an engine may yield: text to trim and to convert, and text
\* that is empty once trimmed.  Segment text holds no line break.
Segments ==
    { [start |-> T0, end |-> T1, text |-> <<" ", "T", "a", " ", "S", " ">>],
      [start |-> T1, end |-> T2, text |-> <<" ", " ">>] }

RECURSIVE SeqsUpTo(_, _)
SeqsUpTo(S, n) ==
    IF n = 0 THEN {<<>>}
    ELSE LET shorter == SeqsUpTo(S, n - 1)
         IN  shorter \cup {Append(q, x) : q \in {r \in shorter : Len(r) = n - 1}, x \in S}

\* result.get('language'): a language code, or None when the key is absent.
Languages == {"en", "zh", NoneVal}

\* The results of transcribe_audio: a detected language and the segments.
Results == [language : Languages, segments : SeqsUpTo(Segments, MaxSegs)]

\* The chinese_conversion argument.
Variants == {NoneVal, "simplified", "traditional"}

\* The audio file as write_transcription finds it: the path, whether
\* os.path.getsize succeeds and with which size, whether the file can be
\* opened and read to its end and with which content.  The size query and
\* the read are two system calls: the file may vanish, appear or be
\* unreadable between or at either of them.
AudioCases ==
    { [path |-> <<"a", ".mp3">>, statOk |-> TRUE, size |-> 3,
       readOk |-> TRUE, content |-> <<"x", "y", "z">>],
      [path |-> <<"d", "/", "e", ".mp3">>, statOk |-> TRUE, size |-> 0,
       readOk |-> TRUE, content |-> <<>>],
      [path |-> <<"d", "/", "a", ".mp3">>, statOk |-> FALSE, size |-> 0,
       readOk |-> FALSE, content |-> <<>>],
      [path |-> <<"d", "/", "a", ".mp3">>, statOk |-> TRUE, size |-> 3,
       readOk |-> FALSE, content |-> <<"x", "y", "z">>],
      [path |-> <<"a", ".mp3">>, statOk |-> FALSE, size |-> 0,
       readOk |-> TRUE, content |-> <<"x", "y", "z">>] }

\* The output paths: <base>_transcription.txt of the audio files a.mp3, e.MP3.
OutPaths == {<<"a", "_transcription.txt">>, <<"e", "_transcription.txt">>}

\* The output path of the library calls.
LibraryOutPath == <<"a", "_transcription.txt">>

\* ------------------------------------------------------ the file system

\* A file that does not exist.
Absent == [exists |-> FALSE, data |-> <<>>]

\* open(path, 'a') in place of 'w': what the file held is kept.
OpenAppend(file) == [file EXCEPT !.exists = TRUE]

\* open(path, 'w'): the file is created or truncated.
OpenW(file) == [exists |-> TRUE, data |-> <<>>]

\* f.write(s) on a file opened for writing: s goes after what was written.
FWrite(file, s) == [file EXCEPT !.data = @ \o s]

\* os.path.basename: what follows the last separator.
RECURSIVE basename(_)
basename(path) ==
    IF \E i \in 1..Len(path) : path[i] = "/" THEN basename(Tail(path)) ELSE path

\* hashlib.sha1 over the chunks read, as hexdigest: a non-empty string that
\* is a function of the content alone (the digest itself is not computed).
Sha1Hex(content) == <<"sha1(">> \o content \o <<")">>

\* ---------------------------------------------------- write_transcription

\* os.path.getsize in its try block.
FileSize(audio) == IF audio.statOk THEN audio.size ELSE 0

\* The streaming SHA1 in its try block.
FileSha1(audio) == IF audio.readOk THEN Sha1Hex(audio.content) ELSE <<>>

\* The configurations the other way round.
ConfigSwapped(chinese_conversion) ==
    IF chinese_conversion = "simplified" THEN "s2t" ELSE "t2s"

\* 't2s' if chinese_conversion == 'simplified' else 's2t'
Config(chinese_conversion) ==
    IF chinese_conversion = "simplified" THEN "t2s" ELSE "s2t"

\* The converter set up without the test of the detected language.
ConverterAnyLanguage(result, chinese_conversion) ==
    IF chinese_conversion # NoneVal
    THEN Config(chinese_conversion)
    ELSE NoneVal

\* The converter cc: None, or OpenCC on the configuration of the variant.
ConverterFor(result, chinese_conversion) ==
    IF chinese_conversion # NoneVal /\ result.language = "zh"
    THEN Config(chinese_conversion)
    ELSE NoneVal

\* OpenCC(config).convert(text).  The conversion is by phrases: a character
\* may convert differently after another one.  Here "S" becomes "T", but "U"
\* when it follows "h" in the text converted; "T" and "U" both become "S".
Convert(cc, text) ==
    [i \in 1..Len(text) |->
        IF cc = "t2s" /\ text[i] \in {"T", "U"} THEN "S"
        ELSE IF cc = "s2t" /\ text[i] = "S"
        THEN (IF i > 1 /\ text[i - 1] = "h" THEN "U" ELSE "T")
        ELSE text[i]]

\* The text of a segment as it is written: trimmed, then converted if cc.
SegmentText(cc, segment) ==
    LET text == Strip(segment.text)
    IN  IF cc # NoneVal THEN Convert(cc, text) ELSE text

\* str(x) of a value of a result: 'None' for None.
PyStr(x) == IF x = NoneVal THEN <<"None">> ELSE <<x>>

\* The count of the segments that have text once trimmed.
CountNonEmpty(result) ==
    Cardinality({i \in 1..Len(result.segments) : Strip(result.segments[i].text) # <<>>})

\* len(result.get('segments', [])).
SegmentCount(result) == Len(result.segments)

\* The header with the language and segment count written first.
HeaderLanguageFirst(result, audio) ==
    <<"language: ">> \o PyStr(result.language) \o <<NL>>
    \o <<"segments: ">> \o ToStr(Len(result.segments)) \o <<NL, NL>>
    \o <<"filename: ">> \o basename(audio.path) \o <<NL>>
    \o <<"file_size: ">> \o ToStr(FileSize(audio)) \o <<" bytes", NL>>
    \o <<"sha1: ">> \o FileSha1(audio) \o <<NL, NL>>

\* The file metadata and the language and segment count, as written.
HeaderText(result, audio) ==
    <<"filename: ">> \o basename(audio.path) \o <<NL>>
    \o <<"file_size: ">> \o ToStr(FileSize(audio)) \o <<" bytes", NL>>
    \o <<"sha1: ">> \o FileSha1(audio) \o <<NL, NL>>
    \o <<"language: ">> \o PyStr(result.language) \o <<NL>>
    \o <<"segments: ">> \o ToStr(SegmentCount(result)) \o <<NL, NL>>

\* The loop over the segments with timestamps, skipping empty text.
RECURSIVE TimestampBodySkipping(_, _)
TimestampBodySkipping(cc, segments) ==
    IF segments = <<>> THEN <<>>
    ELSE LET segment == Head(segments)
             text == SegmentText(cc, segment)
         IN  (IF text # <<>>
              THEN <<"[">> \o format_timestamp(segment.start) \o <<" --> ">>
                   \o format_timestamp(segment.end) \o <<"]", NL>> \o text \o <<NL, NL>>
              ELSE <<>>)
             \o TimestampBodySkipping(cc, Tail(segments))

\* The loop over the segments with timestamps.
RECURSIVE TimestampBody(_, _)
TimestampBody(cc, segments) ==
    IF segments = <<>> THEN <<>>
    ELSE LET segment == Head(segments)
             text == SegmentText(cc, segment)
             start_time == format_timestamp(segment.start)
             end_time == format_timestamp(segment.end)
         IN  <<"[">> \o start_time \o <<" --> ">> \o end_time \o <<"]", NL>>
             \o text \o <<NL, NL>>
             \o TimestampBody(cc, Tail(segments))

\* The loop over the segments without timestamps, without the conversion.
RECURSIVE PlainBodyUnconverted(_, _)
PlainBodyUnconverted(cc, segments) ==
    IF segments = <<>> THEN <<>>
    ELSE LET text == Strip(Head(segments).text)
         IN  (IF text # <<>> THEN text \o <<NL>> ELSE <<>>)
             \o PlainBodyUnconverted(cc, Tail(segments))

\* The loop over the segments without timestamps, without the test of text.
RECURSIVE PlainBodyKeepingEmpty(_, _)
PlainBodyKeepingEmpty(cc, segments) ==
    IF segments = <<>> THEN <<>>
    ELSE SegmentText(cc, Head(segments)) \o <<NL>>
         \o PlainBodyKeepingEmpty(cc, Tail(segments))

\* The loop over the segments without timestamps.
RECURSIVE PlainBody(_, _)
PlainBody(cc, segments) ==
    IF segments = <<>> THEN <<>>
    ELSE LET text == SegmentText(cc, Head(segments))
         IN  (IF text # <<>> THEN text \o <<NL>> ELSE <<>>)
             \o PlainBody(cc, Tail(segments))

BodyText(result, include_timestamps, chinese_conversion) ==
    LET cc == ConverterFor(result, chinese_conversion)
    IN  IF include_timestamps THEN TimestampBody(cc, result.segments)
        ELSE PlainBody(cc, result.segments)

\* The output file after write_transcription: opened for writing, the header
\* written, then the body.
Written(file, result, audio, include_timestamps, chinese_conversion) ==
    FWrite(FWrite(OpenW(file), HeaderText(result, audio)),
           BodyText(result, include_timestamps, chinese_conversion))

\* ------------------------------------------- results as they may be given

\* A result and a segment are dictionaries: functions whose domain is the
\* set of their keys.  d.get(key, default):
Get(d, key, default) == IF key \in DOMAIN d THEN d[key] ELSE default

\* The segments of Segments, and segments that lack 'text', 'start', 'end'
\* or all three of them.
RawSegments ==
    Segments \cup
    { [id |-> 0, start |-> T0, end |-> T1],
      [id |-> 0, text |-> <<" ", "T", " ">>, end |-> T1],
      [id |-> 0, text |-> <<" ", "T", " ">>, start |-> T0],
      [id |-> 0] }

\* The results with a 'segments' entry and the results without one.
RawResults ==
    [language : Languages, segments : SeqsUpTo(RawSegments, MaxSegs)]
    \cup [language : Languages]

\* What a call of write_transcription leaves: whether open(output_file, 'w')
\* returned, the exception that left the function (None if it returned),
\* and the output file.
Outcome(opened, raised, file) == [opened |-> opened, raised |-> raised, file |-> file]

\* speech_to_text_core: the header, written from result.get('language') and
\* len(result.get('segments', [])).
HeaderOf(result, audio) ==
    <<"filename: ">> \o basename(audio.path) \o <<NL>>
    \o <<"file_size: ">> \o ToStr(FileSize(audio)) \o <<" bytes", NL>>
    \o <<"sha1: ">> \o FileSha1(audio) \o <<NL, NL>>
    \o <<"language: ">> \o PyStr(Get(result, "language", NoneVal)) \o <<NL>>
    \o <<"segments: ">> \o ToStr(Len(Get(result, "segments", <<>>))) \o <<NL, NL>>

\* cc: set up from chinese_conversion and result.get('language').
ConverterOf(result, chinese_conversion) ==
    IF chinese_conversion # NoneVal /\ Get(result, "language", NoneVal) = "zh"
    THEN Config(chinese_conversion)
    ELSE NoneVal

\* for segment in result['segments']: segment['text'], segment['start'] and
\* segment['end'] are read before the two writes of the segment; a missing
\* key raises KeyError and the with statement closes the file as it is.
RECURSIVE TimestampLoop(_, _, _)
TimestampLoop(cc, f, segments) ==
    IF segments = <<>> THEN Outcome(TRUE, NoneVal, f)
    ELSE LET segment == Head(segments)
         IN  IF ~({"text", "start", "end"} \subseteq DOMAIN segment)
             THEN Outcome(TRUE, "KeyError", f)
             ELSE LET text == IF cc # NoneVal
                              THEN Convert(cc, Strip(segment["text"]))
                              ELSE Strip(segment["text"])
                      start_time == format_timestamp(segment["start"])
                      end_time == format_timestamp(segment["end"])
                  IN  TimestampLoop(cc,
                        FWrite(FWrite(f, <<"[">> \o start_time \o <<" --> ">>
                                         \o end_time \o <<"]", NL>>),
                               text \o <<NL, NL>>),
                        Tail(segments))

\* for segment in result.get('segments', []):
\* text = str(segment.get('text', '')).strip()
RECURSIVE PlainLoop(_, _, _)
PlainLoop(cc, f, segments) ==
    IF segments = <<>> THEN Outcome(TRUE, NoneVal, f)
    ELSE LET stripped == Strip(Get(Head(segments), "text", <<>>))
             text == IF cc # NoneVal THEN Convert(cc, stripped) ELSE stripped
         IN  PlainLoop(cc, IF text # <<>> THEN FWrite(f, text \o <<NL>>) ELSE f,
                       Tail(segments))

\* speech_to_text_core.write_transcription on the output file `file`;
\* `writable` is whether open(output_file, 'w') succeeds.
write_transcription(file, writable, result, audio, include_timestamps, chinese_conversion) ==
    LET cc == ConverterOf(result, chinese_conversion)
    IN  IF ~writable THEN Outcome(FALSE, "OSError", file)
        ELSE LET f == FWrite(OpenW(file), HeaderOf(result, audio))
             IN  IF include_timestamps
                 THEN IF "segments" \in DOMAIN result
                      THEN TimestampLoop(cc, f, result["segments"])
                      ELSE Outcome(TRUE, "KeyError", f)
                 ELSE PlainLoop(cc, f, Get(result, "segments", <<>>))

\* ------------------------------------------- the module speech_to_text

\* speech_to_text.format_timestamp
legacy_format_timestamp(t) ==
    LET td == Timedelta(t)
        hours == td.seconds \div 3600
        minutes == (td.seconds % 3600) \div 60
        secs == td.seconds % 60
        milliseconds == td.microseconds \div 1000
    IN  Pad(ToStr(hours), 2) \o <<":">> \o Pad(ToStr(minutes), 2) \o <<":">>
        \o Pad(ToStr(secs), 2) \o <<".">> \o Pad(ToStr(milliseconds), 3)

\* 't2s' if chinese_conversion == 'simplified' else 's2t'
LegacyConfig(chinese_conversion) ==
    IF chinese_conversion = "simplified" THEN "t2s" ELSE "s2t"

\* cc, from the OpenCC imported with the module.
LegacyConverterOf(result, chinese_conversion) ==
    IF chinese_conversion # NoneVal
    THEN IF Get(result, "language", NoneVal) = "zh"
         THEN LegacyConfig(chinese_conversion)
         ELSE NoneVal
    ELSE NoneVal

\* The five writes of the header.
LegacyHeaderOf(f, result, audio) ==
    LET filename == basename(audio.path)
        file_size == FileSize(audio)
        file_sha1 == FileSha1(audio)
        f1 == FWrite(f, <<"filename: ">> \o filename \o <<NL>>)
        f2 == FWrite(f1, <<"file_size: ">> \o ToStr(file_size) \o <<" bytes", NL>>)
        f3 == FWrite(f2, <<"sha1: ">> \o file_sha1 \o <<NL, NL>>)
        f4 == FWrite(f3, <<"language: ">> \o PyStr(Get(result, "language", NoneVal))
                         \o <<NL>>)
    IN  FWrite(f4, <<"segments: ">> \o ToStr(Len(Get(result, "segments", <<>>)))
                   \o <<NL, NL>>)

\* The loop with timestamps of speech_to_text.write_transcription.
RECURSIVE LegacyTimestampLoop(_, _, _)
LegacyTimestampLoop(cc, f, segments) ==
    IF segments = <<>> THEN Outcome(TRUE, NoneVal, f)
    ELSE LET segment == Head(segments)
         IN  IF "text" \notin DOMAIN segment THEN Outcome(TRUE, "KeyError", f)
             ELSE IF "start" \notin DOMAIN segment THEN Outcome(TRUE, "KeyError", f)
             ELSE IF "end" \notin DOMAIN segment THEN Outcome(TRUE, "KeyError", f)
             ELSE LET stripped == Strip(segment["text"])
                      text == IF cc # NoneVal THEN Convert(cc, stripped) ELSE stripped
                      start_time == legacy_format_timestamp(segment["start"])
                      end_time == legacy_format_timestamp(segment["end"])
                      f1 == FWrite(f, <<"[">> \o start_time \o <<" --> ">>
                                      \o end_time \o <<"]", NL>>)
                      f2 == FWrite(f1, text \o <<NL, NL>>)
                  IN  LegacyTimestampLoop(cc, f2, Tail(segments))

\* The loop without timestamps of speech_to_text.write_transcription.
RECURSIVE LegacyPlainLoop(_, _, _)
LegacyPlainLoop(cc, f, segments) ==
    IF segments = <<>> THEN Outcome(TRUE, NoneVal, f)
    ELSE LET segment == Head(segments)
             stripped == Strip(Get(segment, "text", <<>>))
             text == IF cc # NoneVal THEN Convert(cc, stripped) ELSE stripped
         IN  IF text # <<>>
             THEN LegacyPlainLoop(cc, FWrite(f, text \o <<NL>>), Tail(segments))
             ELSE LegacyPlainLoop(cc, f, Tail(segments))

\* speech_to_text.write_transcription
legacy_write_transcription(file, writable, result, audio, include_timestamps, chinese_conversion) ==
    LET cc == LegacyConverterOf(result, chinese_conversion)
    IN  IF ~writable THEN Outcome(FALSE, "OSError", file)
        ELSE LET f == LegacyHeaderOf(OpenW(file), result, audio)
             IN  IF include_timestamps
                 THEN IF "segments" \in DOMAIN result
                      THEN LegacyTimestampLoop(cc, f, result["segments"])
                      ELSE Outcome(TRUE, "KeyError", f)
                 ELSE LegacyPlainLoop(cc, f, Get(result, "segments", <<>>))

\* ------------------------------------------------------------- the state

VARIABLES
    fs,     \* the output files: path -> [exists, data]
    wt,     \* the last call of write_transcription: its arguments, and whether
            \* the output file held more before the call than after it
    earlier, \* a call of write_transcription, remembered with the file
            \* it left, and the number of calls since
    ft,     \* the last call of format_timestamp: its argument and its value
    eng,    \* an invocation of model.transcribe: the arguments of
            \* transcribe_audio and the keyword arguments built from them
    dg,     \* the run of diagnose: where it is, what it printed, the probes
            \* it ran, its exit code
    um,     \* the run of update_model: where it is, the cache and the models
            \* directory, its exit code
    gui,    \* a GUI instance: its attributes, its main thread, its worker
            \* threads and the requests queued for the main thread
    wr,     \* a call of write_transcription of each module on one result:
            \* the arguments, the output file before, what each call left
    tqdm,   \* the module attribute tqdm.tqdm: the progress reporter class
    th,     \* the call of transcribe_audio of each thread: its locals
    nextId, \* the number of calls of transcribe_audio begun, plus one
    cli,    \* the run of main: where it is, its locals, its exit code
    fs0     \* the output files when main began

vars == <<fs, wt, earlier, ft, eng, dg, um, gui, wr, tqdm, th, nextId, cli, fs0>>
writeVars == <<fs, wt, earlier>>
transcribeVars == <<tqdm, th, nextId>>
cliVars == <<cli, fs0>>
formatVars == <<ft, eng>>
toolVars == <<dg, um>>
guiVars == <<gui>>
rawVars == <<wr>>

NoCall ==
    [called |-> FALSE, result |-> [language |-> NoneVal, segments |-> <<>>],
     output_file |-> LibraryOutPath,
     audio |-> CHOOSE a \in AudioCases : TRUE,
     include_timestamps |-> FALSE, chinese_conversion |-> NoneVal,
     prevLonger |-> FALSE]

\* The threads that call transcribe_audio.
Threads == {1, 2}

\* A progress reporter class is the sequence of the calls whose CallbackTqdm
\* classes lead to it, the most derived first: <<>> is the engine's own
\* tqdm.tqdm, <<2, 1>> is the CallbackTqdm of call 2 derived from the
\* CallbackTqdm of call 1 derived from tqdm.tqdm.
OriginalTqdm == <<>>

\* The locals of a thread that is not in transcribe_audio.  original_tqdm
\* and pbar are <<>> for None and <<c>> for the class c.  loads and
\* transcribes count the invocations of whisper.load_model and of
\* model.transcribe, model is what load_model found, total is the total of
\* the engine's progress bar and invoked the callbacks the last update of
\* the bar invoked, in order.
NoThread ==
    [pc |-> "idle", id |-> 0, callback |-> FALSE, entry |-> OriginalTqdm,
     original_tqdm |-> <<>>, pbar |-> <<>>, updates |-> 0, outcome |-> "none",
     loads |-> 0, transcribes |-> 0, model |-> "none", total |-> 0,
     invoked |-> <<>>]

InitTranscribe ==
    /\ tqdm = OriginalTqdm
    /\ th = [t \in Threads |-> NoThread]
    /\ nextId = 1

\* No call is remembered.
NoEarlier == [set |-> FALSE, call |-> NoCall, file |-> Absent, since |-> 0]

InitWrite ==
    /\ fs = [p \in OutPaths |-> Absent]
    /\ wt = NoCall
    /\ earlier = NoEarlier

\* main has not parsed its arguments yet.  language_code is <<>> for None
\* and <<c>> for the code c; exit_code is -1 while the process runs.
NoCli ==
    [pc |-> "main", argv |-> <<>>, audio_file |-> <<>>, language_code |-> <<>>,
     include_timestamps |-> FALSE, chinese_conversion |-> NoneVal,
     output_file |-> LibraryOutPath, engine |-> "none",
     result |-> [language |-> NoneVal, segments |-> <<>>],
     call |-> <<>>, wrote |-> FALSE, exit_code |-> -1]
\* (wrote: write_transcription was invoked; call: <<>>, or <<a>> with the
\* arguments a that transcribe_audio was invoked with.)

InitCli ==
    /\ cli = NoCli
    /\ fs0 = fs

\* format_timestamp has not been called.
NoFormat == [called |-> FALSE, seconds |-> T0, text |-> <<>>]

InitFormat == ft = NoFormat

\* The keyword arguments before any is set; language and initial_prompt are
\* <<>> when the key is absent and <<v>> when it has the value v.
NoKwargs == [verbose |-> FALSE, language |-> <<>>, initial_prompt |-> <<>>]

\* model.transcribe has not been invoked.
NoEngineCall ==
    [called |-> FALSE, audio_file |-> <<>>, language_code |-> <<>>, kwargs |-> NoKwargs]

InitEngine == eng = NoEngineCall

\* diagnose has not begun; exit_code is -1 while the process runs.
NoDiagnose == [pc |-> "idle", out |-> <<>>, ran |-> {}, failed |-> {}, exit_code |-> -1]

\* update_model has not begun.  cache and models are <<>> for no file and
\* <<c>> for a file of content c; models_dir tells whether ./models exists.
NoUpdate ==
    [pc |-> "idle", cache |-> <<>>, models |-> <<>>, models0 |-> <<>>,
     models_dir |-> FALSE, dir0 |-> FALSE, acquired |-> FALSE, exit_code |-> -1]

InitTools ==
    /\ dg = NoDiagnose
    /\ um = NoUpdate

\* The most worker threads a GUI instance starts, and the most requests to
\* start a transcription it is sent.
MaxWorkers == 2
MaxRequests == 3

Workers == 1..MaxWorkers

\* The GUI after __init__.  start_time is 0 for None and the number of the
\* worker that set it for a time; main is "loop" between two handlers and
\* "elapsed" inside update_elapsed_time, after its guard, with seen the
\* start_time the guard read; elapsed is what update_elapsed_time met when
\* it last used start_time; pc is where each worker is, enable whether it
\* has asked for the button to be enabled again.
NoGui ==
    [is_processing |-> FALSE, start_time |-> 0, elapsed_timer_active |-> FALSE,
     button |-> TRUE, timer |-> FALSE, queue |-> <<>>,
     main |-> "loop", seen |-> 0, elapsed |-> "none", requests |-> 0,
     pc |-> [w \in Workers |-> "idle"],
     enable |-> [w \in Workers |-> FALSE]]

InitGui == gui = NoGui

\* Neither module has written yet.  core and legacy are <<>>, then <<o>> for
\* the outcome o of the call.
NoRaw ==
    [result |-> [language |-> NoneVal], audio |-> CHOOSE a \in AudioCases : TRUE,
     before |-> Absent, writable |-> TRUE, include_timestamps |-> FALSE,
     chinese_conversion |-> NoneVal, core |-> <<>>, legacy |-> <<>>]

InitRaw == wr = NoRaw

Init ==
    /\ InitWrite
    /\ InitTranscribe
    /\ InitCli
    /\ InitFormat
    /\ InitEngine
    /\ InitTools
    /\ InitGui
    /\ InitRaw

\* write_transcription(result, output_file, audio_file, include_timestamps,
\* chinese_conversion) on a well-formed result.
WriteTranscription ==
    \E result \in Results, output_file \in {LibraryOutPath}, audio \in AudioCases,
       include_timestamps \in BOOLEAN, chinese_conversion \in Variants :
        /\ fs' = [fs EXCEPT ![output_file] =
                    Written(@, result, audio, include_timestamps, chinese_conversion)]
        /\ UNCHANGED <<earlier, transcribeVars, cliVars, formatVars, toolVars, guiVars, rawVars>>
        /\ wt' = [called |-> TRUE, result |-> result, output_file |-> output_file,
                  audio |-> audio, include_timestamps |-> include_timestamps,
                  chinese_conversion |-> chinese_conversion,
                  prevLonger |-> Len(fs[output_file].data) > Len(fs'[output_file].data)]

NextWrite == WriteTranscription

SpecWrite == Init /\ [][NextWrite]_vars

\* Segments whose texts make a phrase of the converter when joined: the
\* first ends with "h" and the second begins with "S" once trimmed.
PhraseSegments ==
    { [start |-> T0, end |-> T1, text |-> <<" ", "a", "h", " ">>],
      [start |-> T1, end |-> T2, text |-> <<"S", "T", " ">>],
      [start |-> T2, end |-> T2, text |-> <<" ">>] }

PhraseResults == [language : Languages, segments : SeqsUpTo(PhraseSegments, MaxSegs)]

\* write_transcription on a result whose segments make phrases across their
\* boundaries.
WritePhrases ==
    \E result \in PhraseResults, include_timestamps \in BOOLEAN,
       chinese_conversion \in Variants :
        LET audio == CHOOSE a \in AudioCases : a.statOk /\ a.readOk /\ a.size > 0
        IN  /\ fs' = [fs EXCEPT ![LibraryOutPath] =
                    Written(@, result, audio, include_timestamps, chinese_conversion)]
            /\ UNCHANGED <<earlier, transcribeVars, cliVars, formatVars, toolVars, guiVars, rawVars>>
            /\ wt' = [called |-> TRUE, result |-> result, output_file |-> LibraryOutPath,
                      audio |-> audio, include_timestamps |-> include_timestamps,
                      chinese_conversion |-> chinese_conversion,
                      prevLonger |-> Len(fs[LibraryOutPath].data) > Len(fs'[LibraryOutPath].data)]

NextPhrases == WritePhrases

\* The results of the repeated runs.
RepeatResults ==
    { [language |-> "zh", segments |-> <<>>],
      [language |-> "zh", segments |-> <<CHOOSE g \in Segments : Strip(g.text) # <<>> >>],
      [language |-> "en", segments |-> <<CHOOSE g \in Segments : Strip(g.text) # <<>>,
                                         CHOOSE g \in Segments : Strip(g.text) = <<>> >>] }

\* The most calls counted since the remembered one.
MaxSince == 2

\* write_transcription run again and again on one output path; a run may
\* be remembered, with the file it left, to be compared with a later one.
WriteAgain ==
    \E result \in RepeatResults, include_timestamps \in BOOLEAN,
       chinese_conversion \in {NoneVal, "simplified"}, remember \in BOOLEAN :
        LET audio == CHOOSE a \in AudioCases : a.statOk /\ a.readOk /\ a.size > 0
        IN  /\ fs' = [fs EXCEPT ![LibraryOutPath] =
                    Written(@, result, audio, include_timestamps, chinese_conversion)]
            /\ wt' = [called |-> TRUE, result |-> result, output_file |-> LibraryOutPath,
                      audio |-> audio, include_timestamps |-> include_timestamps,
                      chinese_conversion |-> chinese_conversion,
                      prevLonger |-> Len(fs[LibraryOutPath].data) > Len(fs'[LibraryOutPath].data)]
            /\ earlier' = IF remember
                       THEN [set |-> TRUE, call |-> [wt' EXCEPT !.prevLonger = FALSE],
                             file |-> fs'[LibraryOutPath], since |-> 0]
                       ELSE [earlier EXCEPT !.since = IF @ < MaxSince THEN @ + 1 ELSE @]
            /\ UNCHANGED <<transcribeVars, cliVars, formatVars, toolVars, guiVars, rawVars>>

NextRepeat == WriteAgain

\* format_timestamp(seconds), called on its own.
FormatTimestamp ==
    \E seconds \in TimeInputs :
        /\ ft' = [called |-> TRUE, seconds |-> seconds, text |-> format_timestamp(seconds)]
        /\ UNCHANGED <<eng, writeVars, transcribeVars, cliVars, toolVars, guiVars, rawVars>>

NextFormat == FormatTimestamp

SpecFormat == Init /\ [][NextFormat]_vars

SpecRepeat == Init /\ [][NextRepeat]_vars

SpecPhrases == Init /\ [][NextPhrases]_vars

\* -------------------------------------------------------- transcribe_audio

\* transcribe_audio is entered: with a progress callback the reporter is to
\* be patched, without one the try block is next.
Call(t) ==
    /\ th[t].pc = "idle"
    /\ nextId <= MaxCalls
    /\ \E progress_callback \in BOOLEAN :
        th' = [th EXCEPT ![t] =
                [NoThread EXCEPT !.pc = IF progress_callback THEN "save" ELSE "try",
                                 !.id = nextId,
                                 !.callback = progress_callback,
                                 !.entry = tqdm,
                                 !.outcome = "running"]]
    /\ nextId' = nextId + 1
    /\ UNCHANGED <<tqdm, writeVars, cliVars, formatVars, toolVars, guiVars, rawVars>>

\* original_tqdm = tqdm.tqdm
Save(t) ==
    /\ th[t].pc = "save"
    /\ th' = [th EXCEPT ![t].original_tqdm = <<tqdm>>, ![t].pc = "patch"]
    /\ UNCHANGED <<tqdm, nextId, writeVars, cliVars, formatVars, toolVars, guiVars, rawVars>>

\* class CallbackTqdm(original_tqdm); tqdm.tqdm = CallbackTqdm
Patch(t) ==
    /\ th[t].pc = "patch"
    /\ tqdm' = <<th[t].id>> \o th[t].original_tqdm[1]
    /\ th' = [th EXCEPT ![t].pc = "try"]
    /\ UNCHANGED <<nextId, writeVars, cliVars, formatVars, toolVars, guiVars, rawVars>>

\* The names whisper.load_model takes for models to download.
ModelNames == {"tiny", "base", "small", "medium", "large"}

ModelName == "base"

\* The argument of whisper.load_model.
ModelPath == "./models/base.pt"

\* whisper.load_model(name): a model name is downloaded, any other name is
\* the path of a file, which is read if it is there.
load_model(name, isfile) ==
    IF name \in ModelNames THEN "downloaded"
    ELSE IF isfile THEN "loaded"
    ELSE "absent"

\* Where the call goes on when load_model raises, and when load_model is
\* called again after it raised.
LoadRetried == "try"
LoadRaised == "finally"

\* whisper.load_model returns the model, or raises: the file is not there,
\* or it cannot be loaded.
LoadModel(t) ==
    /\ th[t].pc = "try"
    /\ \E isfile \in BOOLEAN, sound \in BOOLEAN :
        LET found == load_model(ModelPath, isfile)
        IN  th' = [th EXCEPT ![t].loads = @ + 1,
                             ![t].model = found,
                             ![t].pc = IF found = "absent" \/ ~sound
                                       THEN LoadRaised ELSE "transcribe",
                             ![t].outcome = IF found = "absent" THEN "model_not_found"
                                            ELSE IF ~sound THEN "load_failed"
                                            ELSE @]
    /\ UNCHANGED <<tqdm, nextId, writeVars, cliVars, formatVars, toolVars, guiVars, rawVars>>

\* The totals of the engine's progress bar: none (no frames), or the
\* number of its updates.
TotalSteps == {0, MaxUpdates}

\* model.transcribe begins: the engine makes its progress bar, an instance
\* of the class tqdm.tqdm names at that time, or raises before it does.
TranscribeBegin(t) ==
    /\ th[t].pc = "transcribe"
    /\ \/ \E total \in TotalSteps :
            th' = [th EXCEPT ![t].pc = "decoding", ![t].pbar = <<tqdm>>,
                             ![t].transcribes = @ + 1, ![t].total = total]
       \/ th' = [th EXCEPT ![t].pc = "finally", ![t].outcome = "decode_failed",
                            ![t].transcribes = @ + 1]
    /\ UNCHANGED <<tqdm, nextId, writeVars, cliVars, formatVars, toolVars, guiVars, rawVars>>

\* The call with this number is in progress.
InProgress(id) == \E u \in Threads : th[u].id = id /\ th[u].pc \notin {"idle", "ended"}

\* The arguments of the callback: self.n after super().update(n) has
\* counted the step, self.total, and (self.n / self.total) * 100 as the
\* fraction num / den.
CallbackArgs(t) ==
    [n |-> th[t].updates + 1, total |-> th[t].total,
     percentage |-> [num |-> (th[t].updates + 1) * 100, den |-> th[t].total]]

\* The callbacks one update of the bar of t invokes: each class of the
\* chain calls the update of its base class and then, the total being
\* non-zero, its own callback; live tells whether the call that supplied
\* the callback is in progress.
Invocations(t) ==
    LET c == th[t].pbar[1]
    IN  IF th[t].total = 0 THEN <<>>
        ELSE [i \in 1..Len(c) |->
                [call |-> c[Len(c) + 1 - i], args |-> CallbackArgs(t),
                 live |-> InProgress(c[Len(c) + 1 - i])]]

\* The engine updates its progress bar: the update of the engine's own
\* class, then the callbacks of the classes derived from it; a callback
\* may raise, which ends the decoding.
Update(t) ==
    /\ th[t].pc = "decoding"
    /\ th[t].updates < MaxUpdates
    /\ \/ th' = [th EXCEPT ![t].updates = @ + 1, ![t].invoked = Invocations(t)]
       \/ /\ Invocations(t) # <<>>
          /\ th' = [th EXCEPT ![t].updates = @ + 1, ![t].invoked = Invocations(t),
                                ![t].pc = "finally",
                                ![t].outcome = "callback_raised"]
    /\ UNCHANGED <<tqdm, nextId, writeVars, cliVars, formatVars, toolVars, guiVars, rawVars>>

\* model.transcribe returns the result, or raises while decoding.
TranscribeEnd(t) ==
    /\ th[t].pc = "decoding"
    /\ \/ th' = [th EXCEPT ![t].pc = "finally", ![t].outcome = "returned"]
       \/ th' = [th EXCEPT ![t].pc = "finally", ![t].outcome = "decode_failed"]
    /\ UNCHANGED <<tqdm, nextId, writeVars, cliVars, formatVars, toolVars, guiVars, rawVars>>

\* The reporter restored only when the call returns a result.
RestoredOnSuccess(t) ==
    IF th[t].original_tqdm # <<>> /\ th[t].outcome = "returned"
    THEN th[t].original_tqdm[1] ELSE tqdm

\* tqdm.tqdm after the finally block of the call of t.
Restored(t) ==
    IF th[t].original_tqdm # <<>> THEN th[t].original_tqdm[1] ELSE tqdm

\* The finally block; the call has then ended.
Finally(t) ==
    /\ th[t].pc = "finally"
    /\ tqdm' = Restored(t)
    /\ th' = [th EXCEPT ![t].pc = "ended"]
    /\ UNCHANGED <<nextId, writeVars, cliVars, formatVars, toolVars, guiVars, rawVars>>

\* The caller goes on after the call, whose locals are no more.
Return(t) ==
    /\ th[t].pc = "ended"
    /\ th' = [th EXCEPT ![t] = NoThread]
    /\ UNCHANGED <<tqdm, nextId, writeVars, cliVars, formatVars, toolVars, guiVars, rawVars>>

\* A call that begins when no other call is in progress.
CallAlone(t) ==
    /\ \A u \in Threads \ {t} : th[u].pc = "idle"
    /\ Call(t)

\* The calls of several threads, interleaved in every way.
NextTranscribe ==
    \E t \in Threads :
        \/ Call(t)
        \/ Save(t)
        \/ Patch(t)
        \/ LoadModel(t)
        \/ TranscribeBegin(t)
        \/ Update(t)
        \/ TranscribeEnd(t)
        \/ Finally(t)
        \/ Return(t)

SpecTranscribe == Init /\ [][NextTranscribe]_vars

\* The calls one after the other: none begins while another is in progress.
NextSequential ==
    \E t \in Threads :
        \/ CallAlone(t)
        \/ Save(t)
        \/ Patch(t)
        \/ LoadModel(t)
        \/ TranscribeBegin(t)
        \/ Update(t)
        \/ TranscribeEnd(t)
        \/ Finally(t)
        \/ Return(t)

SpecSequential == Init /\ [][NextSequential]_vars

\* ----------------------------------------------------------------- diagnose

\* The probes of diagnose, in the order of the code.
Probes == <<"nvidia-smi", "nvcc", "PyTorch", "Whisper", "Model file">>

\* What a probe may meet: the command or import works, the command returns
\* an error, or the command, the import or the size query raises.
ProbeOutcomes == {"ok", "error", "raised"}

\* The outcomes of each probe: an import has no return code, and a model
\* file that is not there ("error") is not asked for its size.
OutcomesOf(probe) ==
    IF probe \in {"PyTorch", "Whisper"} THEN {"ok", "raised"} ELSE ProbeOutcomes

\* The line a probe prints first.
ProbeLine(probe, outcome) ==
    IF probe = "Model file"
    THEN <<"[Model file]",
           CASE outcome = "ok" -> "  Found"
             [] outcome = "raised" -> "  Found but could not stat"
             [] OTHER -> "  Not found">>
    ELSE CASE outcome = "ok" -> <<"[", probe, "]">>
           [] outcome = "error" -> <<"[", probe, "] Not available or returned error">>
           [] OTHER -> <<"[", probe, "] Not available: ">>

\* The step after the probe i when an exception of the probe is not caught.
AfterProbeUncaught(i, outcome) ==
    IF outcome = "raised" THEN "crashed"
    ELSE IF i < Len(Probes) THEN Probes[i + 1] ELSE "exit"

\* The step after the probe i: each try block has its except clause, the
\* next statement follows whatever the probe met.
AfterProbe(i, outcome) ==
    IF i < Len(Probes) THEN Probes[i + 1] ELSE "exit"

\* The header, the Python version and the platform are printed.
DiagnoseBegin ==
    /\ dg.pc = "idle"
    /\ dg' = [dg EXCEPT !.pc = Probes[1],
                        !.out = <<"=== Speech-to-Text Diagnostics ===", "Python: ", "Platform: ">>]
    /\ UNCHANGED <<um, writeVars, transcribeVars, cliVars, formatVars, guiVars, rawVars>>

\* The probe i runs and prints what it met.
Probe(i) ==
    /\ dg.pc = Probes[i]
    /\ \E outcome \in OutcomesOf(Probes[i]) :
        dg' = [dg EXCEPT !.pc = AfterProbe(i, outcome),
                         !.out = @ \o ProbeLine(Probes[i], outcome),
                         !.ran = @ \cup {Probes[i]},
                         !.failed = IF outcome = "ok" THEN @ ELSE @ \cup {Probes[i]}]
    /\ UNCHANGED <<um, writeVars, transcribeVars, cliVars, formatVars, guiVars, rawVars>>

NvidiaSmi == Probe(1)
Nvcc == Probe(2)
PyTorch == Probe(3)
Whisper == Probe(4)
ModelFile == Probe(5)

\* sys.exit(0)
DiagnoseExit ==
    /\ dg.pc = "exit"
    /\ dg' = [dg EXCEPT !.pc = "exited", !.exit_code = 0]
    /\ UNCHANGED <<um, writeVars, transcribeVars, cliVars, formatVars, guiVars, rawVars>>

NextDiagnose ==
    \/ DiagnoseBegin
    \/ NvidiaSmi
    \/ Nvcc
    \/ PyTorch
    \/ Whisper
    \/ ModelFile
    \/ DiagnoseExit

\* Each step of diagnose ends: the commands run under a timeout.
SpecDiagnose == Init /\ [][NextDiagnose]_vars /\ WF_vars(NextDiagnose)

\* ------------------------------------------------------------- update_model

\* The contents a model file may have.
Artifacts == {"base-1", "base-2", "base-3"}

\* update_model begins with any ./models/base.pt, or none, in a ./models
\* directory that is there or not, and any file, or none, at the cache path.
InitUpdate ==
    /\ InitWrite
    /\ InitTranscribe
    /\ InitCli
    /\ InitFormat
    /\ InitEngine
    /\ InitGui
    /\ InitRaw
    /\ dg = NoDiagnose
    /\ \E models \in {<<>>} \cup {<<c>> : c \in Artifacts},
          cache \in {<<>>} \cup {<<c>> : c \in Artifacts},
          models_dir \in BOOLEAN :
        /\ models # <<>> => models_dir
        /\ um = [NoUpdate EXCEPT !.models = models, !.models0 = models,
                                 !.cache = cache,
                                 !.models_dir = models_dir, !.dir0 = models_dir]

\* whisper.load_model("base"): the engine downloads the model to its own
\* download directory and loads it, or raises.  The file at cache_path, in
\* the directory WHISPER_CACHE names, is then the one downloaded, the one
\* that was there, or none.
UpdateLoad ==
    /\ um.pc = "idle"
    /\ \/ \E cache \in {um.cache} \cup {<<c>> : c \in Artifacts} :
            um' = [um EXCEPT !.pc = "check", !.cache = cache, !.acquired = TRUE]
       \/ um' = [um EXCEPT !.pc = "raised", !.exit_code = 1]
    /\ UNCHANGED <<dg, writeVars, transcribeVars, cliVars, formatVars, guiVars, rawVars>>

\* The step after the test of cache_path when the test is left out.
AfterCheckUnchecked == "makedirs"

\* if not os.path.exists(cache_path): sys.exit(1)
AfterCheck == IF um.cache = <<>> THEN "exited" ELSE "makedirs"

UpdateCheck ==
    /\ um.pc = "check"
    /\ um' = [um EXCEPT !.pc = AfterCheck,
                        !.exit_code = IF AfterCheck = "exited" THEN 1 ELSE @]
    /\ UNCHANGED <<dg, writeVars, transcribeVars, cliVars, formatVars, guiVars, rawVars>>

\* os.makedirs("./models", exist_ok=True)
UpdateMakedirs ==
    /\ um.pc = "makedirs"
    /\ um' = [um EXCEPT !.pc = "copy", !.models_dir = TRUE]
    /\ UNCHANGED <<dg, writeVars, transcribeVars, cliVars, formatVars, guiVars, rawVars>>

\* shutil.copy2(cache_path, "./models/base.pt"); the function returns and
\* main with it, the process ends with code 0.  copy2 raises for a source
\* that is not there, before it opens the destination.
UpdateCopy ==
    /\ um.pc = "copy"
    /\ um' = IF um.cache = <<>>
             THEN [um EXCEPT !.pc = "raised", !.exit_code = 1]
             ELSE [um EXCEPT !.pc = "returned", !.models = um.cache, !.exit_code = 0]
    /\ UNCHANGED <<dg, writeVars, transcribeVars, cliVars, formatVars, guiVars, rawVars>>

NextUpdate ==
    \/ UpdateLoad
    \/ UpdateCheck
    \/ UpdateMakedirs
    \/ UpdateCopy

SpecUpdate == InitUpdate /\ [][NextUpdate]_vars

\* ------------------------------------------------------------------ the GUIs

otherVars == <<writeVars, transcribeVars, cliVars, formatVars, toolVars, rawVars>>

\* The guard of start_transcription left out.
AcceptsAlways == TRUE

\* if self.is_processing: return
Accepts == ~gui.is_processing

\* start_transcription, a handler of the main thread: without an audio file
\* that exists, or while is_processing, it returns; else it sets
\* is_processing and starts a worker thread.
StartTranscription ==
    /\ gui.main = "loop"
    /\ gui.requests < MaxRequests
    /\ \E audio_ok \in BOOLEAN :
        IF audio_ok /\ Accepts
        THEN \E w \in Workers :
                /\ gui.pc[w] = "idle"
                /\ \A v \in Workers : v < w => gui.pc[v] # "idle"
                /\ gui' = [gui EXCEPT !.requests = @ + 1, !.is_processing = TRUE,
                                      !.pc[w] = "begin"]
        ELSE gui' = [gui EXCEPT !.requests = @ + 1]
    /\ UNCHANGED otherVars

\* self.start_time = time.time()
WorkerBegin(w) ==
    /\ gui.pc[w] = "begin"
    /\ gui' = [gui EXCEPT !.start_time = w, !.pc[w] = "activate"]
    /\ UNCHANGED otherVars

\* self.elapsed_timer_active = True, and the requests to disable the button
\* and to start the timer.
WorkerActivate(w) ==
    /\ gui.pc[w] = "activate"
    /\ gui' = [gui EXCEPT !.elapsed_timer_active = TRUE,
                          !.queue = @ \o <<"button_off", "timer_start">>,
                          !.pc[w] = "transcribe"]
    /\ UNCHANGED otherVars

\* transcribe_audio returns or raises.
WorkerTranscribe(w) ==
    /\ gui.pc[w] = "transcribe"
    /\ \E next \in {"write", "except"} : gui' = [gui EXCEPT !.pc[w] = next]
    /\ UNCHANGED otherVars

\* write_transcription returns or raises.
WorkerWrite(w) ==
    /\ gui.pc[w] = "write"
    /\ \E next \in {"success", "except"} : gui' = [gui EXCEPT !.pc[w] = next]
    /\ UNCHANGED otherVars

\* The success path: self.elapsed_timer_active = False and the request to
\* stop the timer, then the messages.
WorkerSuccess(w) ==
    /\ gui.pc[w] = "success"
    /\ gui' = [gui EXCEPT !.elapsed_timer_active = FALSE,
                          !.queue = @ \o <<"timer_stop">>,
                          !.pc[w] = "finally"]
    /\ UNCHANGED otherVars

\* Where a worker goes on after its except clause if there is no finally
\* block behind it.
AfterExceptNoFinally == "done"

\* The finally block follows the except clause.
AfterExcept == "finally"

\* The except clause: self.elapsed_timer_active = False and the request to
\* stop the timer, then the error message.
WorkerExcept(w) ==
    /\ gui.pc[w] = "except"
    /\ gui' = [gui EXCEPT !.elapsed_timer_active = FALSE,
                          !.queue = @ \o <<"timer_stop">>,
                          !.pc[w] = AfterExcept]
    /\ UNCHANGED otherVars

\* finally: self.is_processing = False
WorkerFinally(w) ==
    /\ gui.pc[w] = "finally"
    /\ gui' = [gui EXCEPT !.is_processing = FALSE, !.pc[w] = "clear"]
    /\ UNCHANGED otherVars

\* self.start_time = None
WorkerClear(w) ==
    /\ gui.pc[w] = "clear"
    /\ gui' = [gui EXCEPT !.start_time = 0, !.pc[w] = "enable"]
    /\ UNCHANGED otherVars

\* The request to enable the button; the thread ends.
WorkerEnable(w) ==
    /\ gui.pc[w] = "enable"
    /\ gui' = [gui EXCEPT !.queue = @ \o <<"button_on">>, !.enable[w] = TRUE,
                          !.pc[w] = "done"]
    /\ UNCHANGED otherVars

WorkerStep(w) ==
    \/ WorkerBegin(w)
    \/ WorkerActivate(w)
    \/ WorkerTranscribe(w)
    \/ WorkerWrite(w)
    \/ WorkerSuccess(w)
    \/ WorkerExcept(w)
    \/ WorkerFinally(w)
    \/ WorkerClear(w)
    \/ WorkerEnable(w)

\* The main thread takes a request of a worker from its queue: the button
\* is set, the timer started or stopped.
HandleRequest ==
    /\ gui.main = "loop"
    /\ gui.queue # <<>>
    /\ LET request == Head(gui.queue)
       IN  gui' = [gui EXCEPT
                !.queue = Tail(@),
                !.button = IF request = "button_on" THEN TRUE
                           ELSE IF request = "button_off" THEN FALSE ELSE @,
                !.timer = IF request = "timer_start" THEN TRUE
                          ELSE IF request = "timer_stop" THEN FALSE ELSE @]
    /\ UNCHANGED otherVars

\* The timer calls update_elapsed_time on the main thread:
\* if not self.elapsed_timer_active or not self.start_time: return
\* (A call that met a changed start_time is followed by no other.)
UpdateElapsedGuard ==
    /\ gui.main = "loop"
    /\ gui.timer
    /\ gui.elapsed = "none"
    /\ IF ~gui.elapsed_timer_active \/ gui.start_time = 0
       THEN gui' = [gui EXCEPT !.seen = 0]
       ELSE gui' = [gui EXCEPT !.main = "elapsed", !.seen = gui.start_time]
    /\ UNCHANGED otherVars

\* elapsed = time.time() - self.start_time: the attribute is read again;
\* the difference with None raises TypeError.
UpdateElapsedUse ==
    /\ gui.main = "elapsed"
    /\ gui' = [gui EXCEPT
                !.main = "loop",
                !.elapsed = IF gui.start_time = 0 THEN "TypeError"
                            ELSE IF gui.start_time # gui.seen THEN "changed"
                            ELSE "none"]
    /\ UNCHANGED otherVars

NextGui ==
    \/ StartTranscription
    \/ \E w \in Workers : WorkerStep(w)
    \/ HandleRequest
    \/ UpdateElapsedGuard
    \/ UpdateElapsedUse

\* A thread that can run is run in the end, and the engine returns or raises.
SpecGui == Init /\ [][NextGui]_vars /\ \A w \in Workers : WF_vars(WorkerStep(w))

\* ----------------------------------------------------------------- main

\* The largest number of command line arguments after the program name.
MaxArgs == 3

\* The command line arguments: each a sequence of tokens.
ArgTokens ==
    { <<"a", ".mp3">>, <<"e", ".MP3">>, <<"n", ".wav">>, <<"gone", ".mp3">>,
      <<"ZH">>, <<"auto">>, <<"--timestamps">>,
      <<"--chinese=", "Simplified">>, <<"--chinese=", "bogus">> }

\* The files that exist when main runs.
ExistingFiles == { <<"a", ".mp3">>, <<"e", ".MP3">>, <<"n", ".wav">> }

\* The extensions os.path.splitext splits off.
Extensions == {".mp3", ".MP3", ".wav"}

\* str.lower() of a token.
LowerToken(x) ==
    CASE x = ".MP3" -> ".mp3"
      [] x = "ZH" -> "zh"
      [] x = "Simplified" -> "simplified"
      [] OTHER -> x

Lower(s) == [i \in 1..Len(s) |-> LowerToken(s[i])]

\* os.path.splitext(path)[0]
SplitextBase(path) ==
    IF path # <<>> /\ path[Len(path)] \in Extensions
    THEN SubSeq(path, 1, Len(path) - 1) ELSE path

\* ------------------------------------------- the arguments for the engine

\* The characters of audio file names: a letter, a digit, the separators,
\* a special character and the space.
NameChars == {"a", "1", "_", "-", "!", " "}

\* The longest audio file name, less its directory and extension.
MaxName == 3

\* The language codes: None, the empty string, a code and another string.
LanguageCodes == {<<>>, <<"">>, <<"en">>, <<"EN ">>}

\* The characters \w and \s match.
WordChars == {"a", "1", "_"}

\* re.sub(r'[_-]+', ' ', s): each run of underscores and hyphens becomes
\* one space.
RECURSIVE ReplaceSeparators(_)
ReplaceSeparators(s) ==
    IF s = <<>> THEN <<>>
    ELSE IF Head(s) \in {"_", "-"}
    THEN IF Len(s) > 1 /\ s[2] \in {"_", "-"}
         THEN ReplaceSeparators(Tail(s))
         ELSE <<" ">> \o ReplaceSeparators(Tail(s))
    ELSE <<Head(s)>> \o ReplaceSeparators(Tail(s))

\* re.sub(r'[^\w\s]', ' ', s): each other character becomes a space.
ReplaceSpecial(s) ==
    [i \in 1..Len(s) |-> IF s[i] \in WordChars \cup Whitespace THEN s[i] ELSE " "]

\* ' '.join(s.split()): the runs of whitespace become one space, and
\* those at the ends nothing.
RECURSIVE CollapseRuns(_)
CollapseRuns(s) ==
    IF Len(s) < 2 THEN s
    ELSE IF s[1] \in Whitespace /\ s[2] \in Whitespace THEN CollapseRuns(Tail(s))
    ELSE <<IF s[1] \in Whitespace THEN " " ELSE s[1]>> \o CollapseRuns(Tail(s))

JoinSplit(s) == Strip(CollapseRuns(s))

\* cleaned_name, from the name of the audio file.
CleanedName(audio_file) ==
    LET filename_only == SplitextBase(basename(audio_file))
    IN  JoinSplit(ReplaceSpecial(ReplaceSeparators(filename_only)))

\* kwargs: language when language_code is truthy, initial_prompt when
\* cleaned_name is.
Kwargs(audio_file, language_code) ==
    [verbose |-> FALSE,
     language |-> IF language_code # <<>> /\ language_code[1] # ""
                  THEN language_code ELSE <<>>,
     initial_prompt |-> IF CleanedName(audio_file) # <<>>
                        THEN <<CleanedName(audio_file)>> ELSE <<>>]

\* The audio file names: with and without a directory and an extension.
AudioNames ==
    { dir \o stem \o ext : dir \in {<<>>, <<"b", "/">>},
                           stem \in SeqsUpTo(NameChars, MaxName),
                           ext \in {<<>>, <<".mp3">>} }

\* The keyword arguments of model.transcribe, built from the arguments of
\* transcribe_audio, for every audio file name and language code.
InitKwargs ==
    /\ InitWrite
    /\ InitTranscribe
    /\ InitCli
    /\ InitFormat
    /\ InitTools
    /\ InitGui
    /\ InitRaw
    /\ eng \in [called : {FALSE}, audio_file : AudioNames,
                 language_code : LanguageCodes, kwargs : {NoKwargs}]

\* result = model.transcribe(audio_file, **kwargs)
EngineTranscribe ==
    /\ ~eng.called
    /\ eng' = [eng EXCEPT !.called = TRUE,
                          !.kwargs = Kwargs(eng.audio_file, eng.language_code)]
    /\ UNCHANGED <<ft, writeVars, transcribeVars, cliVars, toolVars, guiVars, rawVars>>

NextKwargs == EngineTranscribe

SpecKwargs == InitKwargs /\ [][NextKwargs]_vars

\* list.remove(x): the list without the first x.
RECURSIVE RemoveFirst(_, _)
RemoveFirst(args, x) ==
    IF args = <<>> THEN <<>>
    ELSE IF Head(args) = x THEN Tail(args)
    ELSE <<Head(args)>> \o RemoveFirst(Tail(args), x)

\* The loop over a copy of args for --chinese=: each value is trimmed and
\* lowered; a value that is no variant ends the process, the others are
\* removed from args and the last one is the conversion.
RECURSIVE ChineseLoop(_, _)
ChineseLoop(todo, acc) ==
    IF todo = <<>> \/ acc.exit THEN acc
    ELSE LET arg == Head(todo)
         IN  IF arg[1] = "--chinese="
             THEN LET val == LowerToken(arg[2])
                  IN  IF val \in {"simplified", "traditional"}
                      THEN ChineseLoop(Tail(todo),
                              [acc EXCEPT !.chinese_conversion = val,
                                          !.args = RemoveFirst(@, arg)])
                      ELSE [acc EXCEPT !.exit = TRUE]
             ELSE ChineseLoop(Tail(todo), acc)

\* The arguments parsed: the options taken out, the positional ones left.
ParseArgs(argv) ==
    LET include_timestamps == \E i \in 1..Len(argv) : argv[i] = <<"--timestamps">>
        args == IF include_timestamps THEN RemoveFirst(argv, <<"--timestamps">>) ELSE argv
    IN  ChineseLoop(args, [exit |-> FALSE, args |-> args,
                           include_timestamps |-> include_timestamps,
                           chinese_conversion |-> NoneVal])

\* language_code when 'auto' is passed on like any code.
LanguageCodePassedOn(language_input) == <<language_input>>

\* language_code = None if language_input == 'auto' else language_input
LanguageCode(language_input) ==
    IF language_input = <<"auto">> THEN <<>> ELSE <<language_input>>

\* The validation without the test of the extension.
RejectsButExtension(parsed) ==
    \/ parsed.exit
    \/ Len(parsed.args) < 1 \/ Len(parsed.args) > 2
    \/ parsed.args[1] \notin ExistingFiles

\* The validation of main: a bad --chinese= value, the number of arguments
\* left, the audio file's existence and its extension.
Rejects(parsed) ==
    \/ parsed.exit
    \/ Len(parsed.args) < 1 \/ Len(parsed.args) > 2
    \/ parsed.args[1] \notin ExistingFiles
    \/ Lower(parsed.args[1])[Len(parsed.args[1])] # ".mp3"

\* main up to the try block: the arguments are parsed and validated; the
\* process exits with code 1 or goes on to transcribe.
Main ==
    /\ cli.pc = "main"
    /\ \E argv \in SeqsUpTo(ArgTokens, MaxArgs) :
        LET parsed == ParseArgs(argv)
            args == parsed.args
            audio_file == args[1]
            language_input == IF Len(args) = 2 THEN Lower(args[2]) ELSE <<"auto">>
            language_code == LanguageCode(language_input)
        IN  IF Rejects(parsed)
            THEN cli' = [cli EXCEPT !.pc = "exit", !.argv = argv, !.exit_code = 1]
            ELSE cli' = [cli EXCEPT
                    !.pc = "transcribe",
                    !.argv = argv,
                    !.audio_file = audio_file,
                    !.language_code = language_code,
                    !.include_timestamps = parsed.include_timestamps,
                    !.chinese_conversion = parsed.chinese_conversion,
                    !.output_file = SplitextBase(audio_file) \o <<"_transcription.txt">>]
    /\ UNCHANGED <<fs, fs0, wt, earlier, transcribeVars, formatVars, toolVars, guiVars, rawVars>>

\* Where main goes on when the exception of transcribe_audio is ignored.
AfterTranscribeIgnoringFailure(outcome) == "write"

\* Where main goes on after transcribe_audio: to write_transcription when it
\* returned, to the except clause when it raised.
AfterTranscribe(outcome) == IF outcome = "returned" THEN "write" ELSE "except"

\* result = transcribe_audio(audio_file, language_code), without a progress
\* callback: the engine returns a result or raises from the model load or
\* from the decoding.
MainTranscribe ==
    /\ cli.pc = "transcribe"
    /\ \/ \E result \in Results :
            cli' = [cli EXCEPT !.engine = "returned", !.result = result,
                               !.call = <<[audio_file |-> cli.audio_file,
                                           language_code |-> cli.language_code]>>,
                               !.pc = AfterTranscribe("returned")]
       \/ \E outcome \in {"load_failed", "decode_failed"} :
            cli' = [cli EXCEPT !.engine = outcome,
                               !.call = <<[audio_file |-> cli.audio_file,
                                           language_code |-> cli.language_code]>>,
                               !.pc = AfterTranscribe(outcome)]
    /\ UNCHANGED <<fs, fs0, wt, earlier, transcribeVars, formatVars, toolVars, guiVars, rawVars>>

\* write_transcription(result, output_file, audio_file, include_timestamps,
\* chinese_conversion), then the messages of success: the process ends with
\* code 0.  When the output file cannot be opened, open raises, nothing is
\* written and the except clause is next.
MainWrite ==
    /\ cli.pc = "write"
    /\ \/ /\ \E audio \in AudioCases :
                fs' = [fs EXCEPT ![cli.output_file] =
                        Written(@, cli.result, [audio EXCEPT !.path = cli.audio_file],
                                cli.include_timestamps, cli.chinese_conversion)]
          /\ cli' = [cli EXCEPT !.pc = "exit", !.wrote = TRUE, !.exit_code = 0]
       \/ /\ fs' = fs
          /\ cli' = [cli EXCEPT !.pc = "except", !.wrote = TRUE]
    /\ UNCHANGED <<fs0, wt, earlier, transcribeVars, formatVars, toolVars, guiVars, rawVars>>

\* except Exception: the error is printed and the process exits with code 1.
MainExcept ==
    /\ cli.pc = "except"
    /\ cli' = [cli EXCEPT !.pc = "exit", !.exit_code = 1]
    /\ UNCHANGED <<fs, fs0, wt, earlier, transcribeVars, formatVars, toolVars, guiVars, rawVars>>

NextCli == Main \/ MainTranscribe \/ MainWrite \/ MainExcept

\* An output file left by an earlier run.
OldFile == [exists |-> TRUE, data |-> <<"old", NL>>]

\* main runs once, over output files that exist or do not.
InitMain ==
    /\ fs \in [OutPaths -> {Absent, OldFile}]
    /\ wt = NoCall
    /\ earlier = NoEarlier
    /\ InitTranscribe
    /\ InitCli
    /\ InitFormat
    /\ InitEngine
    /\ InitTools
    /\ InitGui
    /\ InitRaw

SpecCli == InitMain /\ [][NextCli]_vars

\* The calls in progress.
Active(t) == th[t].pc \notin {"idle", "ended"}

\* The calls whose callback the reporter class c invokes.
Observers(c) == {c[i] : i \in 1..Len(c)}

C2_ObserverLifetime ==
    /\ \A i \in Observers(tqdm) : \E t \in Threads : th[t].id = i /\ Active(t)
    /\ Cardinality(Observers(tqdm)) <= 1
    /\ (\A t \in Threads : ~Active(t)) => tqdm = OriginalTqdm

\* C3: in main, write_transcription is invoked only after transcribe_audio
\* returned; when the model load or the decoding fails the output files are
\* as they were, none created and none modified, and the exit code is 1.
C3_NoOutputOnEngineFailure ==
    /\ cli.wrote => cli.engine = "returned"
    /\ (cli.pc = "exit" /\ cli.engine \in {"load_failed", "decode_failed"}) =>
            /\ fs = fs0
            /\ ~cli.wrote
            /\ cli.exit_code = 1

\* The decoding failed in a run whose output file existed before.
C3_Witness ==
    /\ cli.pc = "exit"
    /\ cli.engine = "decode_failed"
    /\ fs0[cli.output_file] = OldFile
    /\ cli.exit_code = 1

\* ------------------------------------------------ the lines of a document

\* The lines of a text: what stands before each line feed, and what follows
\* the last one if anything does.
RECURSIVE SplitLines(_)
SplitLines(s) ==
    IF s = <<>> THEN <<>>
    ELSE IF \E i \in 1..Len(s) : s[i] = NL
    THEN LET i == CHOOSE k \in 1..Len(s) : s[k] = NL /\ \A j \in 1..(k - 1) : s[j] # NL
         IN  <<SubSeq(s, 1, i - 1)>> \o SplitLines(SubSeq(s, i + 1, Len(s)))
    ELSE <<s>>

HeaderLines == 7

\* The output file of the last call, and its lines.
LastFile == fs[wt.output_file]
LastLines == SplitLines(LastFile.data)
LastBody == SubSeq(LastLines, HeaderLines + 1, Len(LastLines))

\* The segment's text as the document is to hold it: trimmed, and converted
\* to the requested variant when the detected language is Chinese.
DocumentText(segment) ==
    LET trimmed == Strip(segment.text)
    IN  IF wt.result.language = "zh" /\ wt.chinese_conversion = "simplified"
        THEN Convert("t2s", trimmed)
        ELSE IF wt.result.language = "zh" /\ wt.chinese_conversion = "traditional"
        THEN Convert("s2t", trimmed)
        ELSE trimmed

RECURSIVE Flatten(_)
Flatten(ss) == IF ss = <<>> THEN <<>> ELSE Head(ss) \o Flatten(Tail(ss))

HasEmptySegment == \E i \in 1..Len(wt.result.segments) : Strip(wt.result.segments[i].text) = <<>>
HasTextSegment == \E i \in 1..Len(wt.result.segments) : Strip(wt.result.segments[i].text) # <<>>

\* C4: the file written by write_transcription begins with the lines
\* filename, file_size, sha1, a blank line, language, segments, a blank line,
\* in this order, and the body follows them.
C4_HeaderLayout ==
    wt.called =>
        /\ Len(LastLines) >= HeaderLines
        /\ SubSeq(LastLines, 1, HeaderLines) =
            << <<"filename: ">> \o basename(wt.audio.path),
               <<"file_size: ">> \o ToStr(IF wt.audio.statOk THEN wt.audio.size ELSE 0)
                   \o <<" bytes">>,
               <<"sha1: ">> \o (IF wt.audio.readOk THEN Sha1Hex(wt.audio.content) ELSE <<>>),
               <<>>,
               <<"language: ">> \o PyStr(wt.result.language),
               <<"segments: ">> \o ToStr(Len(wt.result.segments)),
               <<>> >>
        /\ LastFile.data[Len(LastFile.data)] = NL

\* A document with a body was written for an audio file in a directory.
C4_Witness ==
    /\ wt.called
    /\ Len(wt.audio.path) > 2
    /\ wt.audio.readOk /\ wt.audio.statOk
    /\ Len(LastLines) > HeaderLines

\* C5: with timestamps, the body holds for each segment in order, also for
\* one whose trimmed text is empty, three lines: the timestamps, the trimmed
\* and possibly converted text, a blank line.
C5_TimestampBody ==
    (wt.called /\ wt.include_timestamps) =>
        LastBody = Flatten([i \in 1..Len(wt.result.segments) |->
            LET segment == wt.result.segments[i]
            IN  << <<"[">> \o format_timestamp(segment.start) \o <<" --> ">>
                       \o format_timestamp(segment.end) \o <<"]">>,
                   DocumentText(segment),
                   <<>> >>])

\* Two segments were written with timestamps, one of them with empty text.
C5_Witness ==
    /\ wt.called /\ wt.include_timestamps
    /\ Len(wt.result.segments) = 2
    /\ HasEmptySegment /\ HasTextSegment
    /\ Len(LastBody) = 6

\* C6: without timestamps, the body holds one line per segment whose trimmed
\* text is not empty, in order, and nothing else.
C6_PlainBody ==
    (wt.called /\ ~wt.include_timestamps) =>
        LET kept == SelectSeq(wt.result.segments, LAMBDA g : Strip(g.text) # <<>>)
        IN  LastBody = [i \in 1..Len(kept) |-> DocumentText(kept[i])]

\* Two segments were written without timestamps, one of them skipped.
C6_Witness ==
    /\ wt.called /\ ~wt.include_timestamps
    /\ Len(wt.result.segments) = 2
    /\ HasEmptySegment /\ HasTextSegment
    /\ Len(LastBody) = 1

\* C7: the header's 'segments: N' has N the number of segments of the result,
\* in both modes, whatever the number of segments with empty trimmed text.
C7_SegmentCount ==
    wt.called =>
        /\ Len(LastLines) >= 6
        /\ LastLines[6] = <<"segments: ">> \o ToStr(Len(wt.result.segments))

\* A segment with empty text was counted and skipped in the body.
C7_Witness ==
    /\ wt.called /\ ~wt.include_timestamps
    /\ HasEmptySegment
    /\ Len(wt.result.segments) = MaxSegs
    /\ Len(LastBody) < Len(wt.result.segments)
    /\ LastLines[6] = <<"segments: ">> \o ToStr(MaxSegs)

\* C8: after any sequence of calls on one output path the file holds what
\* the last call alone writes to a path that did not exist.
C8_Overwrite ==
    wt.called =>
        LastFile = Written(Absent, wt.result, wt.audio, wt.include_timestamps,
                           wt.chinese_conversion)

\* A shorter document was written over a longer one.
C8_Witness ==
    /\ wt.called
    /\ wt.prevLonger
    /\ LastFile.exists

\* C9: on any failure of the size query or of the read of the audio file
\* the header reports size 0 and an empty hash.
C9_DegradedFingerprint ==
    (wt.called /\ (~wt.audio.statOk \/ ~wt.audio.readOk)) =>
        /\ Len(LastLines) >= HeaderLines
        /\ LastLines[2] = <<"file_size: ", "0", " bytes">>
        /\ LastLines[3] = <<"sha1: ">>

\* C10: when the detected language is not 'zh', the document is the one
\* written with no variant requested.
C10_NoConversion ==
    (wt.called /\ wt.result.language # "zh") =>
        LastFile = Written(Absent, wt.result, wt.audio, wt.include_timestamps, NoneVal)

\* A variant was requested for a result in another language, or in none,
\* that holds text in both forms.
C10_Witness ==
    /\ wt.called
    /\ wt.result.language = NoneVal
    /\ wt.chinese_conversion = "simplified"
    /\ \E i \in 1..Len(LastBody) : \E j \in 1..Len(LastBody[i]) : LastBody[i][j] = "T"

\* The converter direction of the last call.
LastDirection == IF wt.chinese_conversion = "simplified" THEN "t2s" ELSE "s2t"

\* C11: with a variant requested and the detected language 'zh', in both
\* modes each segment's own trimmed text is converted by itself, never the
\* texts joined, and is written in the segment's place: with timestamps
\* under the segment's own timestamps, the segments in order and all there.
C11_SegmentLocalConversion ==
    (wt.called /\ wt.result.language = "zh" /\ wt.chinese_conversion # NoneVal) =>
        LET segments == wt.result.segments
            own == [i \in 1..Len(segments) |-> Convert(LastDirection, Strip(segments[i].text))]
        IN  IF wt.include_timestamps
            THEN /\ Len(LastBody) = 3 * Len(segments)
                 /\ \A i \in 1..Len(segments) :
                        /\ LastBody[3 * i - 2] =
                            <<"[">> \o format_timestamp(segments[i].start) \o <<" --> ">>
                            \o format_timestamp(segments[i].end) \o <<"]">>
                        /\ LastBody[3 * i - 1] = own[i]
            ELSE LastBody = SelectSeq(own, LAMBDA x : x # <<>>)

\* Two segments were converted whose joined texts convert to another text
\* than the two converted texts joined.
C11_Witness ==
    /\ wt.called /\ wt.result.language = "zh" /\ wt.chinese_conversion = "traditional"
    /\ Len(wt.result.segments) = 2
    /\ LET a == Strip(wt.result.segments[1].text)
           b == Strip(wt.result.segments[2].text)
       IN  /\ Convert("s2t", a \o b) # Convert("s2t", a) \o Convert("s2t", b)
           /\ \E i \in 1..Len(LastBody) : LastBody[i] = Convert("s2t", b)
    /\ ~wt.include_timestamps

\* The last call has the inputs of the remembered one.
SameInputs == earlier.set /\ wt.called /\ [wt EXCEPT !.prevLonger = FALSE] = earlier.call

\* C12: two runs of write_transcription with equal inputs leave the same
\* file, whatever the output path held before and however many runs came
\* between.
C12_Deterministic ==
    SameInputs => fs[wt.output_file] = earlier.file

\* A run was repeated after other runs, over a longer document.
C12_Witness ==
    /\ SameInputs
    /\ earlier.since = MaxSince
    /\ wt.prevLonger
    /\ Len(wt.result.segments) > 0

\* The fields of a timestamp: MM, SS and mmm have 2, 2 and 3 characters.
HoursField(text) == SubSeq(text, 1, Len(text) - 10)
MinutesField(text) == SubSeq(text, Len(text) - 8, Len(text) - 7)
SecondsField(text) == SubSeq(text, Len(text) - 5, Len(text) - 4)
MillisField(text) == SubSeq(text, Len(text) - 2, Len(text))

\* The argument with its fraction cut to whole milliseconds.
TruncatedToMillis(t) == [t EXCEPT !.frac = (@ \div TicksPerMilli) * TicksPerMilli]

\* C13: for an argument of a whole number of milliseconds the value is
\* HH:MM:SS.mmm with HH the whole hours, MM the minutes modulo 60, SS the
\* seconds modulo 60 and mmm the milliseconds, zero-padded to 2, 2, 2 and 3.
C13_WholeMilliseconds ==
    (ft.called /\ ft.seconds.frac % TicksPerMilli = 0) =>
        ft.text = Pad(ToStr(ft.seconds.sec \div 3600), 2) \o <<":">>
                  \o Pad(ToStr((ft.seconds.sec \div 60) % 60), 2) \o <<":">>
                  \o Pad(ToStr(ft.seconds.sec % 60), 2) \o <<".">>
                  \o Pad(ToStr(ft.seconds.frac \div TicksPerMilli), 3)

\* C14: for an argument of 24 hours or more the hours field is the total
\* number of whole hours.
C14_HoursUnbounded ==
    (ft.called /\ ft.seconds.sec >= SecondsPerDay) =>
        HoursField(ft.text) = ToStr(ft.seconds.sec \div 3600)

\* C15: the value is that of the argument cut to whole milliseconds, and
\* mmm is the fraction cut to three digits: nothing is rounded up.
C15_Truncates ==
    ft.called =>
        /\ ft.text = format_timestamp(TruncatedToMillis(ft.seconds))
        /\ MillisField(ft.text) = Pad(ToStr(ft.seconds.frac \div TicksPerMilli), 3)

\* The outcomes of a call that raised.
Failures == {"model_not_found", "load_failed", "decode_failed", "callback_raised"}

\* C16: within one call of transcribe_audio, load_model and transcribe are
\* each invoked at most once; a call in which the engine raised has that one
\* failure as its outcome, runs nothing but its finally block, and invokes
\* neither load_model nor transcribe again.
C16_NoRetry ==
    /\ [](\A t \in Threads :
            /\ th[t].loads <= 1 /\ th[t].transcribes <= 1
            /\ th[t].outcome \in Failures => th[t].pc \in {"finally", "ended"})
    /\ [][\A t \in Threads :
            (th[t].outcome \in Failures /\ th'[t].id = th[t].id) =>
                /\ th'[t].loads = th[t].loads
                /\ th'[t].transcribes = th[t].transcribes
                /\ th'[t].outcome = th[t].outcome]_vars

\* Calls have ended after load_model raised and after transcribe raised, and
\* a third call has begun.
C16_Witness ==
    /\ \E t \in Threads :
        /\ th[t].pc = "ended" /\ th[t].outcome = "load_failed"
        /\ th[t].loads = 1 /\ th[t].transcribes = 0
    /\ nextId > 2

C20_CallbackPerUpdate ==
    \A t \in Threads :
        /\ \A i \in 1..Len(th[t].invoked) : th[t].invoked[i].live
        /\ th[t].invoked =
            IF th[t].updates > 0 /\ th[t].callback /\ th[t].total # 0
            THEN << [call |-> th[t].id,
                     args |-> [n |-> th[t].updates, total |-> th[t].total,
                               percentage |-> [num |-> th[t].updates * 100,
                                               den |-> th[t].total]],
                     live |-> TRUE] >>
            ELSE <<>>

\* C18: with None for language code the engine is given no language; any
\* string, the empty one too, is given to it as it is.
C18_LanguageVerbatim ==
    eng.called => eng.kwargs.language = eng.language_code

\* The characters that are neither letters, digits nor whitespace, taken out.
StripSpecial(s) == SelectSeq(s, LAMBDA x : x \in WordChars \cup Whitespace)

\* Underscores and hyphens made spaces.
SeparatorsToSpaces(s) == [i \in 1..Len(s) |-> IF s[i] \in {"_", "-"} THEN " " ELSE s[i]]

\* C19: the prompt is the base name, less directory and extension, with
\* underscores and hyphens made spaces, the other non-alphanumeric
\* characters stripped and the whitespace collapsed; the engine is given it
\* as initial_prompt exactly when it is not empty.
C19_PromptHint ==
    eng.called =>
        LET stem == SplitextBase(basename(eng.audio_file))
            hint == JoinSplit(StripSpecial(SeparatorsToSpaces(stem)))
        IN  eng.kwargs.initial_prompt = IF hint # <<>> THEN <<hint>> ELSE <<>>

\* The text lines of the body of the last document, in order.
LastTexts ==
    IF wt.include_timestamps
    THEN [i \in 1..(Len(LastBody) \div 3) |-> LastBody[3 * i - 1]]
    ELSE LastBody

\* The trimmed texts of the segments of the last call, converted in the
\* direction dir, as the mode of the call writes them.
TextsConverted(dir) ==
    LET all == [i \in 1..Len(wt.result.segments) |->
                    Convert(dir, Strip(wt.result.segments[i].text))]
    IN  IF wt.include_timestamps THEN all ELSE SelectSeq(all, LAMBDA x : x # <<>>)

\* C21: where the text is converted, it is converted from traditional to
\* simplified exactly when the variant is 'simplified' and from simplified
\* to traditional exactly when it is 'traditional'.
C21_Direction ==
    (wt.called /\ wt.result.language = "zh" /\ wt.chinese_conversion # NoneVal) =>
        /\ wt.chinese_conversion = "simplified" => LastTexts = TextsConverted("t2s")
        /\ wt.chinese_conversion = "traditional" => LastTexts = TextsConverted("s2t")
        /\ TextsConverted("t2s") # TextsConverted("s2t") =>
            /\ LastTexts = TextsConverted("t2s") => wt.chinese_conversion = "simplified"
            /\ LastTexts = TextsConverted("s2t") => wt.chinese_conversion = "traditional"

\* A text with characters of both forms was written for each variant's
\* direction to differ: here the traditional one.
C21_Witness ==
    /\ wt.called /\ wt.result.language = "zh" /\ wt.chinese_conversion = "traditional"
    /\ HasTextSegment
    /\ TextsConverted("s2t") # TextsConverted("t2s")
    /\ LastTexts = TextsConverted("s2t")

\* The probes that come before the step pc of diagnose.
ProbesBefore(pc) ==
    IF pc = "idle" THEN {}
    ELSE IF \E i \in 1..Len(Probes) : Probes[i] = pc
    THEN {Probes[j] : j \in 1..((CHOOSE i \in 1..Len(Probes) : Probes[i] = pc) - 1)}
    ELSE {Probes[j] : j \in 1..Len(Probes)}

\* C22: diagnose always ends with exit code 0, its report begun by the
\* line 'Speech-to-Text Diagnostics', whichever probes fail; every probe
\* runs whatever the probes before it met.
C22_DiagnoseExitsZero ==
    /\ <>(dg.pc = "exited")
    /\ [](/\ dg.ran = ProbesBefore(dg.pc)
          /\ dg.pc = "exited" =>
              /\ dg.exit_code = 0
              /\ dg.out[1] = "=== Speech-to-Text Diagnostics ===")
    /\ [](dg.exit_code \in {-1, 0})

\* diagnose has exited after all of its probes failed.
C22_Witness ==
    /\ dg.pc = "exited"
    /\ dg.failed = {Probes[j] : j \in 1..Len(Probes)}
    /\ dg.ran = dg.failed

IsOption(arg) == arg = <<"--timestamps">> \/ arg[1] = "--chinese="

\* The arguments that are no options, in order.
Positionals(argv) == SelectSeq(argv, LAMBDA arg : ~IsOption(arg))

\* The command lines C25 names.
Invalid(argv) ==
    \/ Len(Positionals(argv)) = 0
    \/ Len(Positionals(argv)) > 2
    \/ Positionals(argv)[1] \notin ExistingFiles
    \/ LET name == Positionals(argv)[1] IN LowerToken(name[Len(name)]) # ".mp3"
    \/ \E i \in 1..Len(argv) :
            /\ argv[i][1] = "--chinese="
            /\ LowerToken(argv[i][2]) \notin {"simplified", "traditional"}

\* C25: with no positional argument, with more than two, with an audio file
\* that does not exist or is not named .mp3 in any case, or with a
\* --chinese= value that is no variant, main exits with code 1 and calls
\* neither transcribe_audio nor write_transcription.
C25_Validation ==
    (cli.pc # "main" /\ Invalid(cli.argv)) =>
        /\ cli.pc = "exit" /\ cli.exit_code = 1
        /\ cli.call = <<>> /\ ~cli.wrote
        /\ fs = fs0

\* main exited for a file that exists and is not named .mp3.
C25_Witness ==
    /\ cli.pc = "exit" /\ cli.exit_code = 1
    /\ cli.argv = << <<"n", ".wav">>, <<"--timestamps">> >>
    /\ cli.call = <<>>

\* The workers that have begun and not yet reset is_processing.
InFlight == {w \in Workers : gui.pc[w] \notin {"idle", "clear", "enable", "done"}}

C27_WorkerEnds ==
    /\ \A w \in Workers : (gui.pc[w] # "idle") ~> (gui.pc[w] = "done")
    /\ [](\A w \in Workers : gui.pc[w] = "done" => gui.enable[w])
    /\ []((\A w \in Workers : gui.pc[w] \in {"idle", "done"}) =>
            /\ ~gui.is_processing
            /\ gui.start_time = 0
            /\ ~gui.elapsed_timer_active)
    /\ gui.is_processing ~> ~gui.is_processing

\* A worker has ended after its engine call raised, and the next was started.
C27_Witness ==
    /\ gui.pc[1] = "done" /\ gui.enable[1]
    /\ gui.pc[2] = "except"

\* C28: update_elapsed_time never uses a start_time that is None: what it
\* uses is the value its guard read.
C28_StartTimeStable ==
    gui.elapsed = "none"

\* ---------------------------------- write_transcription on any result

\* Both modules are about to write the same result to their output file,
\* for every result, audio file, mode and variant; the output file is
\* absent or left by an earlier run, and can be opened for writing or not.
InitBoth ==
    /\ InitWrite
    /\ InitTranscribe
    /\ InitCli
    /\ InitFormat
    /\ InitEngine
    /\ InitTools
    /\ InitGui
    /\ \E result \in RawResults, audio \in AudioCases, file \in {Absent, OldFile},
          writable \in BOOLEAN, include_timestamps \in BOOLEAN,
          chinese_conversion \in Variants :
        wr = [NoRaw EXCEPT !.result = result, !.audio = audio, !.before = file,
                           !.writable = writable,
                           !.include_timestamps = include_timestamps,
                           !.chinese_conversion = chinese_conversion]

\* speech_to_text_core.write_transcription(result, output_file, audio_file,
\* include_timestamps, chinese_conversion)
WriteCore ==
    /\ wr.core = <<>>
    /\ wr' = [wr EXCEPT !.core =
                <<write_transcription(wr.before, wr.writable, wr.result, wr.audio,
                                      wr.include_timestamps, wr.chinese_conversion)>>]
    /\ UNCHANGED <<writeVars, transcribeVars, cliVars, formatVars, toolVars, guiVars>>

\* speech_to_text.write_transcription on the same arguments and file.
WriteLegacy ==
    /\ wr.legacy = <<>>
    /\ wr' = [wr EXCEPT !.legacy =
                <<legacy_write_transcription(wr.before, wr.writable, wr.result,
                                             wr.audio, wr.include_timestamps,
                                             wr.chinese_conversion)>>]
    /\ UNCHANGED <<writeVars, transcribeVars, cliVars, formatVars, toolVars, guiVars>>

NextBoth == WriteCore \/ WriteLegacy

SpecBoth == InitBoth /\ [][NextBoth]_vars

\* C29: a call of write_transcription that raises has not opened the output
\* file: it never leaves a file truncated and holding less than the whole
\* document.
C29_AllOrNothing ==
    /\ wr.core # <<>> => (wr.core[1].raised # NoneVal => ~wr.core[1].opened)
    /\ wr.legacy # <<>> => (wr.legacy[1].raised # NoneVal => ~wr.legacy[1].opened)

\* C30: speech_to_text.write_transcription and
\* speech_to_text_core.write_transcription leave the same output file and
\* raise in the same cases, whatever the result, the audio file, the mode
\* and the variant.
C30_LegacyEquivalent ==
    (wr.core # <<>> /\ wr.legacy # <<>>) => wr.legacy = wr.core

\* Both modules have written a Chinese result of two segments with
\* timestamps, converted, over a file an earlier run left.
C30_Witness ==
    /\ wr.core # <<>> /\ wr.legacy # <<>>
    /\ wr.include_timestamps /\ wr.chinese_conversion = "simplified"
    /\ wr.result.language = "zh"
    /\ "segments" \in DOMAIN wr.result
    /\ Len(wr.result["segments"]) = MaxSegs
    /\ wr.before = OldFile
    /\ wr.core[1].raised = NoneVal
    /\ wr.core[1].file.data # wr.before.data

====
